---- MODULE Spec2Model ----
(***************************************************************************)
(* Model of scripts/2_face_crop_resize.py (class FaceProcessor): the       *)
(* per-image pipeline process_single_image, the quality ladder of          *)
(* _save_with_quality_optimization, the batch loop process_batch and the   *)
(* driver run.                                                             *)
(*                                                                         *)
(* Conventions.                                                            *)
(*  - Bounding-box coordinates are floats in the program.  They are        *)
(*    modelled on a half-pixel grid: the integer c stands for c/2 pixels,  *)
(*    so that int() (truncation toward zero) is not the identity.          *)
(*  - Padding factors are non-negative rationals <<num, den>>.             *)
(*  - Confidences are percentages (an integer 0..100 for 0.00..1.00).      *)
(*  - Encoded sizes are byte counts; file_size_kb is kept as the byte      *)
(*    count it is computed from.                                           *)
(*  - run's return value is "None" (still running), "True" or "False".    *)
(***************************************************************************)
EXTENDS Integers, Sequences, FiniteSets, TLC

VARIABLES
    pc,            \* position of run / process_batch / process_single_image
    config,        \* self.config (read-only after construction)
    files,         \* run: files = self.get_input_files()
    i,             \* run: loop variable of range(0, len(files), batch_size)
    batch,         \* process_batch: parameter files
    j,             \* process_batch: 1-based position of file_path in batch
    results,       \* process_batch: local list results
    all_results,   \* run: local list all_results
    stats,         \* self.stats
    inputDir,      \* files present in directories.processing_renamed
    failedDir,     \* files present in directories.processing_failed
    outputDir,     \* stems written to directories.processing_cropped
    moves,         \* history: <<file, "moved" | "move_failed">> per rename attempt
    report,        \* TRUE once generate_report has written the report
    retval,        \* return value of run (None while running)
    stages,        \* history: stages of process_single_image run for this image
    image,         \* process_single_image: image.shape as <<height, width>>
    faces,         \* process_single_image: faces = self.app.get(image)
    face,          \* process_single_image: selected face
    crop,          \* process_single_image: x1, y1, x2, y2 of the crop region
    result,        \* ProcessingResult being returned (NoResult while in the pipeline)
    emptyDetections, \* history: number of images for which self.app.get returned []
    encPc,         \* position inside _save_with_quality_optimization
    quality,       \* _save_with_quality_optimization: local quality
    tested,        \* history: qualities encoded inside the while loop
    iterations,    \* history: number of completed loop iterations, modulo 2
    codec,         \* cv2.imencode for this image: quality -> [ret, len]
    encRet,        \* value returned by _save_with_quality_optimization
    written        \* <<byte count>> written to output_path (<<>>: nothing written)

vars == <<pc, config, files, i, batch, j, results, all_results, stats,
          inputDir, failedDir, outputDir, moves, report, retval,
          stages, image, faces, face, crop, result, emptyDetections,
          encPc, quality, tested, iterations, codec, encRet, written>>

runVars   == <<files, i, batch, j, results, all_results, stats,
               inputDir, failedDir, outputDir, moves, report, retval,
               emptyDetections>>
imageVars == <<stages, image, faces, face, crop, result>>
encVars   == <<encPc, quality, tested, iterations, codec, encRet, written>>

\* Values of the locals while they hold nothing.
None     == "None"
NoImage  == <<0, 0>>
NoFaces  == <<>>
NoFace   == [bbox |-> <<0, 0, 0, 0>>, det_score |-> 0]
NoCrop   == <<0, 0, 0, 0>>
NoResult == [ filename |-> 0, success |-> FALSE, face_detected |-> FALSE,
              face_confidence |-> 0, original_size |-> <<0, 0>>,
              file_size |-> 0, jpeg_quality |-> 0, error_message |-> None ]
NoReturn == [quality |-> -1, size |-> -1]
NoBytes  == <<>>

(***************************************************************************)
(* Bounds of the model.                                                    *)
(***************************************************************************)
\* image height and width range over 0..MaxDim pixels
MaxDim == 2
\* longest candidate list returned by the detector
MaxFaces == 2
\* most input files in a run
MaxFiles == 2
\* largest configured batch_size
MaxBatch == 2
\* JPEG qualities range over 0..MaxQuality
MaxQuality == 3
\* largest configured jpeg_quality_step
MaxStep == 2

\* the 1024 of max_size_kb * 1024
BytesPerKB == 1024

(***************************************************************************)
(* Python arithmetic.                                                      *)
(***************************************************************************)
\* int(n/d) for d > 0: truncation toward zero.
PyInt(n, d) == IF n >= 0 THEN n \div d ELSE -((-n) \div d)

PyMin(a, b) == IF b < a THEN b ELSE a
PyMax(a, b) == IF b > a THEN b ELSE a

(***************************************************************************)
(* clamp and calculate_crop_region.                                        *)
(***************************************************************************)
clampNoFloor(val, minval, maxval) == PyMin(val, maxval)

clamp(val, minval, maxval) == PyMax(PyMin(val, maxval), minval)

\* f is a face record, shape is image.shape as <<height, width>>,
\* cfg supplies the two padding factors.
calculate_crop_region(f, shape, cfg) ==
    LET x1 == PyInt(f.bbox[1], 2)
        y1 == PyInt(f.bbox[2], 2)
        x2 == PyInt(f.bbox[3], 2)
        y2 == PyInt(f.bbox[4], 2)
        w  == x2 - x1
        h  == y2 - y1
        cx == (x1 + x2) \div 2
        cy == (y1 + y2) \div 2
        pad_w == PyInt(w * cfg.padding_width_factor[1], cfg.padding_width_factor[2])
        pad_h == PyInt(h * cfg.padding_height_factor[1], cfg.padding_height_factor[2])
    IN  << clamp(cx - pad_w, 0, shape[2]),
           clamp(cy - pad_h, 0, shape[1]),
           clamp(cx + pad_w, 0, shape[2]),
           clamp(cy + pad_h, 0, shape[1]) >>

\* cropped = image[y1:y2, x1:x2]; cropped.size == 0
CropIsEmpty(c) == c[3] <= c[1] \/ c[4] <= c[2]

(***************************************************************************)
(* Face selection: max(faces, key=lambda f: f.bbox[2] * f.bbox[3]).        *)
(* Python's max returns the first element whose key is maximal.            *)
(***************************************************************************)
FaceKey(f) == f.bbox[3] * f.bbox[4]

RECURSIVE MaxFrom(_, _, _)
\* index of the element max() returns, scanning fs from position k with best so far b
MaxFrom(fs, k, b) ==
    IF k > Len(fs) THEN b
    ELSE MaxFrom(fs, k + 1, IF FaceKey(fs[k]) > FaceKey(fs[b]) THEN k ELSE b)

SelectFaceIndex(fs) == MaxFrom(fs, 2, 1)

SelectFace(fs) == fs[SelectFaceIndex(fs)]

(***************************************************************************)
(* Configurations.  Only the keys the modelled code reads are kept.        *)
(***************************************************************************)
PaddingFactors == {<<0, 1>>, <<1, 2>>, <<3, 2>>}

BaseConfig ==
    [ padding_width_factor  |-> <<3, 2>>,
      padding_height_factor |-> <<3, 2>>,
      min_face_confidence   |-> 50,
      max_file_size_kb      |-> 1,
      jpeg_quality_start    |-> MaxQuality,
      jpeg_quality_min      |-> MaxQuality - 1,
      jpeg_quality_step     |-> 1,
      batch_size            |-> 1 ]

(***************************************************************************)
(* ProcessingResult values built by process_single_image.                  *)
(***************************************************************************)
ReadError     == "Failed to read image"
NoFaceError   == "No face detected"
LowConfError  == "Face confidence below threshold"
EmptyCropError == "Cropped region is empty"
EncodeError   == "Failed to encode image"
\* str(e) of an exception raised by a library call of the named stage
RaisedIn(stage) == "exception raised in " \o stage

\* the early "return ProcessingResult(success=False, ...)" statements
FailureResult(filename, detected, confidence, size, msg) ==
    [ filename |-> filename, success |-> FALSE, face_detected |-> detected,
      face_confidence |-> confidence, original_size |-> size,
      file_size |-> 0, jpeg_quality |-> 0, error_message |-> msg ]

\* the "except Exception as e" handler
ExceptResult(filename, msg) ==
    FailureResult(filename, FALSE, 0, <<0, 0>>, msg)

SuccessResult(filename, confidence, size, q, bytes) ==
    [ filename |-> filename, success |-> TRUE, face_detected |-> TRUE,
      face_confidence |-> confidence, original_size |-> size,
      file_size |-> bytes, jpeg_quality |-> q, error_message |-> "" ]

(***************************************************************************)
(* _save_with_quality_optimization.                                        *)
(***************************************************************************)
Qualities == 0..MaxQuality

\* what cv2.imencode can give at one quality: failure, an encoding of
\* exactly one KB, an encoding of one KB and a byte
EncodeOutcomes ==
    { [ret |-> FALSE, len |-> 0],
      [ret |-> TRUE,  len |-> BytesPerKB],
      [ret |-> TRUE,  len |-> BytesPerKB + 1] }

Codecs == [Qualities -> EncodeOutcomes]

\* the value of codec outside a call
NoCodec == [q \in Qualities |-> [ret |-> FALSE, len |-> 0]]

FitsBudgetNoRet(enc, max_size_kb) == enc.len <= max_size_kb * BytesPerKB

\* if ret and len(enc_img) <= max_size_kb * 1024
FitsBudget(enc, max_size_kb) == enc.ret /\ enc.len <= max_size_kb * BytesPerKB

NextQualityStuck(q, step) == q

\* quality -= quality_step
NextQuality(q, step) == q - step

\* the quality of the forced encode after the loop
FallbackQuality(q, cfg) == cfg.jpeg_quality_min

\* output_path: the stem of the file being processed
OutputPath == batch[j]

\* one evaluation of the while condition and, inside the loop, one body
EncLoop ==
    /\ encPc = "loop"
    /\ IF quality >= config.jpeg_quality_min
       THEN LET enc == codec[quality] IN
            /\ tested' = tested \cup {quality}
            /\ IF FitsBudget(enc, config.max_file_size_kb)
               THEN /\ written' = <<enc.len>>
                    /\ outputDir' = outputDir \cup {OutputPath}
                    /\ encRet' = [quality |-> quality, size |-> enc.len]
                    /\ encPc' = "returned"
                    /\ UNCHANGED <<quality, iterations>>
               ELSE /\ quality' = NextQuality(quality, config.jpeg_quality_step)
                    /\ iterations' = (iterations + 1) % 2
                    /\ UNCHANGED <<written, outputDir, encRet, encPc>>
       ELSE /\ encPc' = "fallback"
            /\ UNCHANGED <<tested, quality, iterations, written, outputDir, encRet>>
    /\ UNCHANGED <<pc, config, files, i, batch, j, results, all_results, stats,
                   inputDir, failedDir, moves, report, retval, emptyDetections,
                   codec>>
    /\ UNCHANGED imageVars

\* the forced encode at quality_min, or raise Exception("Failed to encode image")
EncFallback ==
    /\ encPc = "fallback"
    /\ LET q   == FallbackQuality(quality, config)
           enc == codec[q] IN
       IF enc.ret
       THEN /\ written' = <<enc.len>>
            /\ outputDir' = outputDir \cup {OutputPath}
            /\ encRet' = [quality |-> q, size |-> enc.len]
            /\ encPc' = "returned"
       ELSE /\ encPc' = "raised"
            /\ UNCHANGED <<written, outputDir, encRet>>
    /\ UNCHANGED <<pc, config, files, i, batch, j, results, all_results, stats,
                   inputDir, failedDir, moves, report, retval, emptyDetections,
                   codec, quality, tested, iterations>>
    /\ UNCHANGED imageVars

(***************************************************************************)
(* process_single_image, one action per stage.                             *)
(***************************************************************************)
StageOrder == << "Read", "Detect", "Select", "ValidateConfidence",
                 "ComputeCrop", "Crop", "Resize", "Encode" >>

\* image_path of the call in progress
ImagePath == batch[j]

\* original_size = (image.shape[1], image.shape[0])
OriginalSize == <<image[2], image[1]>>

\* shapes (height, width) cv2.imread gives for the readable files of a run
ReadableShapes == {<<2, 1>>}

\* bounding boxes on the half-pixel grid, x1 < x2 and y1 < y2, reaching
\* outside the image on both sides
Coords == (-2)..(2 * (MaxDim + 1))

BBoxes == { b \in Coords \X Coords \X Coords \X Coords : b[1] < b[3] /\ b[2] < b[4] }

\* candidate lists self.app.get returns in a run
RunFaces ==
    { [bbox |-> <<0, 0, 4, 4>>, det_score |-> 90],
      [bbox |-> <<2, 2, 3, 3>>, det_score |-> 30],
      [bbox |-> <<4, 4, 5, 5>>, det_score |-> 90] }

RunFaceLists ==
    {<<>>} \cup { <<f>> : f \in RunFaces }
           \cup { <<f, g>> : f \in RunFaces, g \in RunFaces }

\* image = cv2.imread(...); if image is None: return ...
ReadStage ==
    /\ pc = "Read"
    /\ stages' = Append(stages, "Read")
    /\ \/ /\ ImagePath \in inputDir
          /\ \E shape \in ReadableShapes : image' = shape
          /\ pc' = "Detect"
          /\ UNCHANGED result
       \/ /\ result' = FailureResult(ImagePath, FALSE, 0, <<0, 0>>, ReadError)
          /\ pc' = "Return"
          /\ UNCHANGED image
    /\ UNCHANGED <<config, faces, face, crop>>
    /\ UNCHANGED runVars
    /\ UNCHANGED encVars

\* faces = self.app.get(image); if not faces: return ...
DetectStage ==
    /\ pc = "Detect"
    /\ stages' = Append(stages, "Detect")
    /\ \/ \E fs \in RunFaceLists :
             IF fs = <<>>
             THEN /\ result' = FailureResult(ImagePath, FALSE, 0, OriginalSize, NoFaceError)
                  /\ emptyDetections' = emptyDetections + 1
                  /\ pc' = "Return"
                  /\ UNCHANGED faces
             ELSE /\ faces' = fs
                  /\ pc' = "Select"
                  /\ UNCHANGED <<result, emptyDetections>>
       \/ /\ result' = ExceptResult(ImagePath, RaisedIn("Detect"))
          /\ pc' = "Return"
          /\ UNCHANGED <<faces, emptyDetections>>
    /\ UNCHANGED <<config, image, face, crop>>
    /\ UNCHANGED <<files, i, batch, j, results, all_results, stats,
                   inputDir, failedDir, outputDir, moves, report, retval>>
    /\ UNCHANGED encVars

\* face = max(faces, key=...); face_confidence = float(face.det_score)
SelectStage ==
    /\ pc = "Select"
    /\ stages' = Append(stages, "Select")
    /\ face' = SelectFace(faces)
    /\ pc' = "ValidateConfidence"
    /\ UNCHANGED <<config, image, faces, crop, result>>
    /\ UNCHANGED runVars
    /\ UNCHANGED encVars

BelowThresholdNever(confidence, cfg) == FALSE

\* face_confidence < min_confidence
BelowThreshold(confidence, cfg) == confidence < cfg.min_face_confidence

\* if face_confidence < min_confidence: return ...
ValidateStage ==
    /\ pc = "ValidateConfidence"
    /\ stages' = Append(stages, "ValidateConfidence")
    /\ IF BelowThreshold(face.det_score, config)
       THEN /\ result' = FailureResult(ImagePath, TRUE, face.det_score,
                                       OriginalSize, LowConfError)
            /\ pc' = "Return"
       ELSE /\ pc' = "ComputeCrop"
            /\ UNCHANGED result
    /\ UNCHANGED <<config, image, faces, face, crop>>
    /\ UNCHANGED runVars
    /\ UNCHANGED encVars

\* x1, y1, x2, y2 = self.calculate_crop_region(face, image.shape)
ComputeCropStage ==
    /\ pc = "ComputeCrop"
    /\ stages' = Append(stages, "ComputeCrop")
    /\ crop' = calculate_crop_region(face, image, config)
    /\ pc' = "Crop"
    /\ UNCHANGED <<config, image, faces, face, result>>
    /\ UNCHANGED runVars
    /\ UNCHANGED encVars

\* cropped = image[y1:y2, x1:x2]; if cropped.size == 0: return ...
CropStage ==
    /\ pc = "Crop"
    /\ stages' = Append(stages, "Crop")
    /\ IF CropIsEmpty(crop)
       THEN /\ result' = FailureResult(ImagePath, TRUE, face.det_score,
                                       OriginalSize, EmptyCropError)
            /\ pc' = "Return"
       ELSE /\ pc' = "Resize"
            /\ UNCHANGED result
    /\ UNCHANGED <<config, image, faces, face, crop>>
    /\ UNCHANGED runVars
    /\ UNCHANGED encVars

\* the two cv2.resize calls and the sharpening filter
ResizeStage ==
    /\ pc = "Resize"
    /\ stages' = Append(stages, "Resize")
    /\ \/ /\ pc' = "Encode"
          /\ UNCHANGED result
       \/ /\ result' = ExceptResult(ImagePath, RaisedIn("Resize"))
          /\ pc' = "Return"
    /\ UNCHANGED <<config, image, faces, face, crop>>
    /\ UNCHANGED runVars
    /\ UNCHANGED encVars

\* codecs met in a run: every quality fits, none fits, every encode fails
RunCodecs == { [q \in Qualities |-> e] : e \in EncodeOutcomes }

\* quality, file_size_kb = self._save_with_quality_optimization(sharpened, output_path)
EncodeCall ==
    /\ pc = "Encode"
    /\ encPc = "idle"
    /\ stages' = Append(stages, "Encode")
    /\ \E c \in RunCodecs : codec' = c
    /\ encPc' = "loop"
    /\ quality' = config.jpeg_quality_start
    /\ tested' = {}
    /\ iterations' = 0
    /\ encRet' = NoReturn
    /\ written' = NoBytes
    /\ UNCHANGED <<pc, config, image, faces, face, crop, result>>
    /\ UNCHANGED runVars

\* the call returns (the success ProcessingResult) or raises (the handler's)
EncodeReturn ==
    /\ pc = "Encode"
    /\ encPc \in {"returned", "raised"}
    /\ result' = IF encPc = "returned"
                 THEN SuccessResult(ImagePath, face.det_score, OriginalSize,
                                    encRet.quality, encRet.size)
                 ELSE ExceptResult(ImagePath, EncodeError)
    /\ pc' = "Return"
    /\ encPc' = "idle"
    /\ quality' = 0
    /\ tested' = {}
    /\ iterations' = 0
    /\ codec' = NoCodec
    /\ encRet' = NoReturn
    /\ written' = NoBytes
    /\ UNCHANGED <<config, stages, image, faces, face, crop>>
    /\ UNCHANGED runVars

(***************************************************************************)
(* process_batch.                                                          *)
(***************************************************************************)
ZeroStats == [ total_files |-> 0, successful |-> 0, failed |-> 0,
               no_face |-> 0, poor_quality |-> 0 ]

UpdateStatsNoElse(s, r, cfg) ==
    LET t == [s EXCEPT !.total_files = @ + 1] IN
    IF r.success THEN [t EXCEPT !.successful = @ + 1]
    ELSE IF ~r.face_detected THEN [t EXCEPT !.no_face = @ + 1]
    ELSE IF r.face_confidence < cfg.min_face_confidence
         THEN [t EXCEPT !.poor_quality = @ + 1]
    ELSE t

\* the "Update statistics" block
UpdateStats(s, r, cfg) ==
    LET t == [s EXCEPT !.total_files = @ + 1] IN
    IF r.success THEN [t EXCEPT !.successful = @ + 1]
    ELSE IF ~r.face_detected THEN [t EXCEPT !.no_face = @ + 1]
    ELSE IF r.face_confidence < cfg.min_face_confidence
         THEN [t EXCEPT !.poor_quality = @ + 1]
    ELSE [t EXCEPT !.failed = @ + 1]

MoveFailureAborts == "crashed"

\* except Exception as e: self.logger.error(...): the loop goes on
MoveFailureContinues == "file_head"

QuarantinesUndetected(r) == ~r.face_detected

\* the else branch of "if result.success" that moves the file
Quarantines(r) == ~r.success

\* for file_path in files: result = self.process_single_image(file_path)
NextFile ==
    /\ pc = "file_head"
    /\ j <= Len(batch)
    /\ pc' = "Read"
    /\ UNCHANGED config
    /\ UNCHANGED imageVars
    /\ UNCHANGED runVars
    /\ UNCHANGED encVars

\* the loop body after process_single_image returns: append, statistics,
\* log, and for a failure the move to the failed directory
RecordResult ==
    /\ pc = "Return"
    /\ results' = Append(results, result)
    /\ stats' = UpdateStats(stats, result, config)
    /\ IF Quarantines(result)
       THEN \/ /\ ImagePath \in inputDir
               /\ inputDir' = inputDir \ {ImagePath}
               /\ failedDir' = failedDir \cup {ImagePath}
               /\ moves' = Append(moves, <<ImagePath, "moved">>)
               /\ pc' = "file_head"
            \/ /\ moves' = Append(moves, <<ImagePath, "move_failed">>)
               /\ pc' = MoveFailureContinues
               /\ UNCHANGED <<inputDir, failedDir>>
       ELSE /\ pc' = "file_head"
            /\ UNCHANGED <<inputDir, failedDir, moves>>
    /\ j' = j + 1
    /\ stages' = <<>>
    /\ image' = NoImage
    /\ faces' = NoFaces
    /\ face' = NoFace
    /\ crop' = NoCrop
    /\ result' = NoResult
    /\ UNCHANGED <<config, files, i, batch, all_results, outputDir, report,
                   retval, emptyDetections>>
    /\ UNCHANGED encVars

(***************************************************************************)
(* run.                                                                    *)
(***************************************************************************)
RECURSIVE SortedSeq(_)
\* sorted(files): file ids stand for names, in lexicographic order
SortedSeq(S) ==
    IF S = {} THEN <<>>
    ELSE LET m == CHOOSE x \in S : \A y \in S : x <= y
         IN  <<m>> \o SortedSeq(S \ {m})

\* i in range(0, stop, step), for step /= 0
InRange(k, stop, step) == IF step > 0 THEN k < stop ELSE k > stop

BatchSliceShort(fs, k, size) == SubSeq(fs, k + 1, PyMin(k + size - 1, Len(fs)))

\* files[i:i + batch_size], for 0 <= i < len(files) and batch_size > 0
BatchSlice(fs, k, size) == SubSeq(fs, k + 1, PyMin(k + size, Len(fs)))

\* if not self.initialize_insightface(): return False
InitializeInsightface ==
    /\ pc = "start"
    /\ \/ /\ pc' = "get_files"
          /\ UNCHANGED retval
       \/ /\ pc' = "done"
          /\ retval' = "False"
    /\ UNCHANGED <<config, files, i, batch, j, results, all_results, stats,
                   inputDir, failedDir, outputDir, moves, report, emptyDetections>>
    /\ UNCHANGED imageVars
    /\ UNCHANGED encVars

\* files = self.get_input_files(); if not files: return True;
\* then the directories, batch_size and the range object of the for loop
GetInputFiles ==
    /\ pc = "get_files"
    /\ files' = SortedSeq(inputDir)
    /\ IF files' = <<>>
       THEN /\ retval' = "True"
            /\ pc' = "done"
       ELSE /\ pc' = IF config.batch_size = 0 THEN "crashed" ELSE "batch_head"
            /\ UNCHANGED retval
    /\ UNCHANGED <<config, i, batch, j, results, all_results, stats,
                   inputDir, failedDir, outputDir, moves, report, emptyDetections>>
    /\ UNCHANGED imageVars
    /\ UNCHANGED encVars

\* for i in range(0, len(files), batch_size): batch = files[i:i + batch_size];
\* entry of process_batch
BatchHead ==
    /\ pc = "batch_head"
    /\ IF InRange(i, Len(files), config.batch_size)
       THEN /\ batch' = BatchSlice(files, i, config.batch_size)
            /\ results' = <<>>
            /\ j' = 1
            /\ pc' = "file_head"
       ELSE /\ pc' = "report"
            /\ UNCHANGED <<batch, results, j>>
    /\ UNCHANGED <<config, files, i, all_results, stats,
                   inputDir, failedDir, outputDir, moves, report, retval,
                   emptyDetections>>
    /\ UNCHANGED imageVars
    /\ UNCHANGED encVars

\* return results; all_results.extend(batch_results); next i
BatchReturn ==
    /\ pc = "file_head"
    /\ j > Len(batch)
    /\ all_results' = all_results \o results
    /\ results' = <<>>
    /\ i' = i + config.batch_size
    /\ pc' = "batch_head"
    /\ UNCHANGED <<config, files, batch, j, stats,
                   inputDir, failedDir, outputDir, moves, report, retval,
                   emptyDetections>>
    /\ UNCHANGED imageVars
    /\ UNCHANGED encVars

\* self.generate_report(all_results); return True
GenerateReport ==
    /\ pc = "report"
    /\ report' = TRUE
    /\ retval' = "True"
    /\ pc' = "done"
    /\ UNCHANGED <<config, files, i, batch, j, results, all_results, stats,
                   inputDir, failedDir, outputDir, moves, emptyDetections>>
    /\ UNCHANGED imageVars
    /\ UNCHANGED encVars

(***************************************************************************)
(* The run of a freshly constructed FaceProcessor.                         *)
(***************************************************************************)
FileIds == 1..MaxFiles

RunConfigs ==
    { [BaseConfig EXCEPT !.batch_size = b, !.jpeg_quality_step = s]
        : b \in (-1)..MaxBatch, s \in 0..1 }

IdleImage ==
    /\ stages = <<>>
    /\ image = NoImage
    /\ faces = NoFaces
    /\ face = NoFace
    /\ crop = NoCrop
    /\ result = NoResult

IdleEnc ==
    /\ encPc = "idle"
    /\ quality = 0
    /\ tested = {}
    /\ iterations = 0
    /\ codec = NoCodec
    /\ encRet = NoReturn
    /\ written = NoBytes

IdleRun ==
    /\ files = <<>>
    /\ i = 0
    /\ j = 1
    /\ results = <<>>
    /\ all_results = <<>>
    /\ stats = ZeroStats
    /\ failedDir = {}
    /\ outputDir = {}
    /\ moves = <<>>
    /\ report = FALSE
    /\ retval = None
    /\ emptyDetections = 0

Init ==
    /\ pc = "start"
    /\ config \in RunConfigs
    /\ inputDir \in SUBSET FileIds
    /\ batch = <<>>
    /\ IdleRun
    /\ IdleImage
    /\ IdleEnc

Next ==
    \/ InitializeInsightface
    \/ GetInputFiles
    \/ BatchHead
    \/ NextFile
    \/ ReadStage
    \/ DetectStage
    \/ SelectStage
    \/ ValidateStage
    \/ ComputeCropStage
    \/ CropStage
    \/ ResizeStage
    \/ EncodeCall
    \/ EncLoop
    \/ EncFallback
    \/ EncodeReturn
    \/ RecordResult
    \/ BatchReturn
    \/ GenerateReport

Spec == Init /\ [][Next]_vars

\* the program is one sequential thread: it takes its next step if it has one
FairSpec == Spec /\ WF_vars(Next)

(***************************************************************************)
(* _save_with_quality_optimization on its own: any ladder, any budget of   *)
(* one or two KB, any codec.                                               *)
(***************************************************************************)
EncConfigs ==
    { [BaseConfig EXCEPT !.jpeg_quality_start = a, !.jpeg_quality_min = m,
                         !.jpeg_quality_step = s, !.max_file_size_kb = k]
        : a \in Qualities, m \in Qualities, s \in 0..MaxStep, k \in 1..2 }

InitEnc ==
    /\ pc = "Encode"
    /\ config \in EncConfigs
    /\ inputDir = {1}
    /\ batch = <<1>>
    /\ IdleRun
    /\ IdleImage
    /\ codec \in Codecs
    /\ encPc = "loop"
    /\ quality = config.jpeg_quality_start
    /\ tested = {}
    /\ iterations = 0
    /\ encRet = NoReturn
    /\ written = NoBytes

NextEnc == EncLoop \/ EncFallback

SpecEnc == InitEnc /\ [][NextEnc]_vars

\* the call is one sequential computation: it takes its next step if it has one
FairSpecEnc == SpecEnc /\ WF_vars(NextEnc)

(***************************************************************************)
(* calculate_crop_region on its own: any box, any image shape, any         *)
(* padding factors.                                                        *)
(***************************************************************************)
CropConfigs ==
    { [BaseConfig EXCEPT !.padding_width_factor = pw, !.padding_height_factor = ph]
        : pw \in PaddingFactors, ph \in PaddingFactors }

InitCrop ==
    /\ pc = "ComputeCrop"
    /\ config \in CropConfigs
    /\ inputDir = {1}
    /\ batch = <<1>>
    /\ IdleRun
    /\ IdleEnc
    /\ stages = <<>>
    /\ image \in (0..MaxDim) \X (0..MaxDim)
    /\ faces = NoFaces
    /\ face \in { [bbox |-> b, det_score |-> 90] : b \in BBoxes }
    /\ crop = NoCrop
    /\ result = NoResult

NextCrop == ComputeCropStage

SpecCrop == InitCrop /\ [][NextCrop]_vars

(***************************************************************************)
(* The selection of process_single_image on its own: any non-empty list    *)
(* of candidates.                                                          *)
(***************************************************************************)
SelCoords == 0..(MaxDim + 1)

SelFaces ==
    { [bbox |-> b, det_score |-> 90] :
        b \in { c \in SelCoords \X SelCoords \X SelCoords \X SelCoords :
                    c[1] < c[3] /\ c[2] < c[4] } }

RECURSIVE FaceListsUpTo(_)
FaceListsUpTo(n) ==
    IF n = 0 THEN {<<>>}
    ELSE LET shorter == FaceListsUpTo(n - 1)
         IN  shorter \cup { Append(fs, f) : fs \in shorter, f \in SelFaces }

InitSelect ==
    /\ pc = "Select"
    /\ config = BaseConfig
    /\ inputDir = {1}
    /\ batch = <<1>>
    /\ IdleRun
    /\ IdleEnc
    /\ stages = <<>>
    /\ image = <<MaxDim, MaxDim>>
    /\ faces \in FaceListsUpTo(MaxFaces) \ {<<>>}
    /\ face = NoFace
    /\ crop = NoCrop
    /\ result = NoResult

NextSelect == SelectStage

SpecSelect == InitSelect /\ [][NextSelect]_vars

(***************************************************************************)
(* Properties.                                                             *)
(***************************************************************************)
\* the outcomes appended so far, in order
Outcomes == all_results \o results

Filenames(rs) == [k \in 1..Len(rs) |-> rs[k].filename]

IsPrefix(p, q) == Len(p) <= Len(q) /\ \A k \in 1..Len(p) : p[k] = q[k]

\* C1: at every point of a run, each processed image has incremented exactly
\* one of successful, no_face, poor_quality, failed: their sum is total_files,
\* which is the number of outcomes appended so far.
C1_CountersPartition ==
    /\ stats.successful + stats.no_face + stats.poor_quality + stats.failed
         = stats.total_files
    /\ stats.total_files = Len(Outcomes)

C1_Witness ==
    /\ stats.total_files = 2
    /\ stats.successful = 1
    /\ stats.failed = 1

\* the tested ladder values whose encode succeeded within the byte budget
TestedWithinBudget ==
    { q \in tested : codec[q].ret
                     /\ codec[q].len <= config.max_file_size_kb * BytesPerKB }

\* quality_start, quality_start - step, ... while >= quality_min
LadderValues ==
    { q \in Qualities :
        /\ q >= config.jpeg_quality_min
        /\ \E k \in 0..MaxQuality : q = config.jpeg_quality_start
                                          - k * config.jpeg_quality_step }

SetMax(S) == CHOOSE x \in S : \A y \in S : y <= x

\* the call returned the highest tested value that meets the budget, with the
\* size persisted and returned within the budget
ReturnedBestTested ==
    /\ encPc = "returned"
    /\ tested \subseteq LadderValues
    /\ encRet.quality = SetMax(TestedWithinBudget)
    /\ encRet.size = codec[encRet.quality].len
    /\ encRet.size <= config.max_file_size_kb * BytesPerKB
    /\ written = <<encRet.size>>

\* the call returned quality_min and persisted that encoding whatever its size
ReturnedForcedMinimum ==
    /\ encPc = "returned"
    /\ tested \subseteq LadderValues
    /\ encRet.quality = config.jpeg_quality_min
    /\ encRet.size = codec[config.jpeg_quality_min].len
    /\ written = <<encRet.size>>

\* C2 as stated: when the call ends, it returned the highest tested ladder
\* value within the budget (size returned and persisted within the budget),
\* or, no tested value being within the budget, it returned quality_min and
\* persisted the file regardless of size.
C2_BestOrMinimumPersisted ==
    encPc \in {"returned", "raised"} =>
        IF TestedWithinBudget /= {} THEN ReturnedBestTested
        ELSE ReturnedForcedMinimum

\* C2 as amended: the same for a call that returns; and a call in which no
\* tested value is within the budget and the forced encode at quality_min
\* fails raises the encode failure and persists nothing.
C2_BestOrMinimumOrRaise ==
    /\ encPc = "returned" =>
         IF TestedWithinBudget /= {} THEN ReturnedBestTested
         ELSE ReturnedForcedMinimum /\ codec[config.jpeg_quality_min].ret
    /\ encPc = "raised" =>
         /\ TestedWithinBudget = {}
         /\ ~codec[config.jpeg_quality_min].ret
         /\ written = NoBytes
         /\ encRet = NoReturn

C2_Witness ==
    /\ encPc = "returned"
    /\ Cardinality(tested) >= 2
    /\ TestedWithinBudget /= {}
    /\ encRet.quality < config.jpeg_quality_start

\* C3: the rectangle calculate_crop_region returns lies inside the image and
\* is ordered: 0 <= x1 <= x2 <= width and 0 <= y1 <= y2 <= height.
C3_CropWithinImage ==
    pc = "Crop" =>
        /\ 0 <= crop[1] /\ crop[1] <= crop[3] /\ crop[3] <= image[2]
        /\ 0 <= crop[2] /\ crop[2] <= crop[4] /\ crop[4] <= image[1]

\* a box reaching outside the image on the left and on the right, padded
C3_Witness ==
    /\ pc = "Crop"
    /\ face.bbox[1] < 0
    /\ face.bbox[3] > 2 * image[2]
    /\ config.padding_width_factor = <<3, 2>>
    /\ crop[1] < crop[3]

\* the unsuccessful outcomes so far, in order
RECURSIVE Unsuccessful(_)
Unsuccessful(rs) ==
    IF rs = <<>> THEN <<>>
    ELSE (IF Head(rs).success THEN <<>> ELSE <<Head(rs).filename>>)
         \o Unsuccessful(Tail(rs))

\* C4: a move to the failed directory is attempted for every file whose
\* outcome is unsuccessful and for no other; a failed file is in the failed
\* directory under its name and no longer in the input directory unless its
\* move failed, and a successful file stays in the input directory.
C4_QuarantineMoves ==
    /\ [k \in 1..Len(moves) |-> moves[k][1]] = Unsuccessful(Outcomes)
    /\ \A k \in 1..Len(moves) :
          moves[k][2] = "moved" =>
              moves[k][1] \in failedDir /\ moves[k][1] \notin inputDir
    /\ \A k \in 1..Len(Outcomes) :
          Outcomes[k].success =>
              Outcomes[k].filename \in inputDir /\ Outcomes[k].filename \notin failedDir

C4_Witness ==
    /\ pc = "done"
    /\ \E k \in 1..Len(moves) : moves[k][2] = "moved"
    /\ \E k \in 1..Len(all_results) : all_results[k].success

StageErrors(stage) ==
    CASE stage = "Read"               -> {ReadError}
      [] stage = "Detect"             -> {NoFaceError, RaisedIn("Detect")}
      [] stage = "ValidateConfidence" -> {LowConfError}
      [] stage = "Crop"               -> {EmptyCropError}
      [] stage = "Resize"             -> {RaisedIn("Resize")}
      [] stage = "Encode"             -> {EncodeError}
      [] OTHER                        -> {}

\* C6: the stages run in the fixed order, each at most once; no stage runs
\* after a failed one (no face list, low confidence, empty crop, encode
\* failure, exception); the failed outcome carries the message of the stage
\* that failed; an output file exists only for a successful image.
C6_StagesShortCircuit ==
    /\ IsPrefix(stages, StageOrder)
    /\ (Len(stages) >= 3 /\ face.det_score < config.min_face_confidence)
          => Len(stages) <= 4
    /\ (Len(stages) >= 5 /\ (crop[3] <= crop[1] \/ crop[4] <= crop[2]))
          => Len(stages) <= 6
    /\ pc = "Return" =>
          /\ result.filename = ImagePath
          /\ result.success => stages = StageOrder /\ result.error_message = ""
          /\ ~result.success =>
                result.error_message \in StageErrors(stages[Len(stages)])
          /\ ImagePath \in outputDir => result.success
    /\ \A f \in outputDir :
          \/ \E k \in 1..Len(Outcomes) :
                Outcomes[k].filename = f /\ Outcomes[k].success
          \/ /\ pc \in {"Encode", "Return"}
             /\ ImagePath = f
             /\ encPc = "returned" \/ (pc = "Return" /\ result.success)

C6_Witness ==
    /\ pc = "Return"
    /\ result.error_message = LowConfError
    /\ stages = SubSeq(StageOrder, 1, 4)
    /\ outputDir = {}
    /\ Len(Outcomes) = 1

\* the area of a bounding box
BoxArea(f) == (f.bbox[3] - f.bbox[1]) * (f.bbox[4] - f.bbox[2])

\* the first candidate of largest area
FirstLargest(fs) ==
    CHOOSE k \in 1..Len(fs) :
        /\ \A m \in 1..Len(fs) : BoxArea(fs[m]) <= BoxArea(fs[k])
        /\ \A m \in 1..(k - 1) : BoxArea(fs[m]) < BoxArea(fs[k])

\* C7: the selected face is the candidate of largest width x height, the first
\* of them in list order.
C7_SelectsLargestFace ==
    pc = "ValidateConfidence" => face = faces[FirstLargest(faces)]

\* the statistics process_batch computes over a whole list of outcomes
RECURSIVE StatsOf(_, _)
StatsOf(rs, s) ==
    IF rs = <<>> THEN s ELSE StatsOf(Tail(rs), UpdateStats(s, Head(rs), config))

\* every file has one outcome, in sorted order, and the counters are those of
\* the whole list processed as one chunk
ProcessedAsOneChunk ==
    /\ Filenames(all_results) = files
    /\ stats = StatsOf(all_results, ZeroStats)

\* C8 as stated: for every batch_size, a run that got past the model
\* initialisation has processed each file once, in sorted order, with the
\* results and counters of a single chunk.
C8_AnyBatchSize ==
    (pc = "crashed" \/ (pc = "done" /\ retval = "True")) => ProcessedAsOneChunk

\* C8 as amended: the same for every batch_size >= 1; and while such a run
\* is under way the outcomes are those of a prefix of the sorted list.
C8_PositiveBatchSize ==
    config.batch_size >= 1 =>
        /\ IsPrefix(Filenames(Outcomes), files)
        /\ stats = StatsOf(Outcomes, ZeroStats)
        /\ (pc = "done" /\ retval = "True") => ProcessedAsOneChunk

C8_Witness ==
    /\ pc = "done"
    /\ retval = "True"
    /\ config.batch_size = 1
    /\ Len(files) >= 2
    /\ Len(all_results) = Len(files)

\* C9 as stated: every call of _save_with_quality_optimization ends, by a
\* return or by raising the encode failure.
C9_AlwaysTerminates == <>(encPc \in {"returned", "raised"})

\* C9 as amended: every call with jpeg_quality_step >= 1 ends, by a return or
\* by raising the encode failure.
C9_TerminatesForPositiveStep ==
    (encPc = "loop" /\ config.jpeg_quality_step >= 1)
        ~> (encPc \in {"returned", "raised"})

\* a call in which no tested quality met the budget has ended
C9_Witness ==
    /\ encPc \in {"returned", "raised"}
    /\ config.jpeg_quality_step >= 1
    /\ Cardinality(tested) >= 2
    /\ TestedWithinBudget = {}

\* C10: between images, no_face counts the images for which the detector ran
\* and returned no candidate.
C10_NoFaceCountsEmptyDetections ==
    pc = "file_head" => stats.no_face = emptyDetections

====
